---- MODULE Spec2Model ----
(***************************************************************************)
(* PackageIndexer: the shared dependency-graph store (PACKAGES, DEPS, LOCK *)
(* of src/PackageIndexer.py) driven by concurrent connection handlers.     *)
(* Each handler thread loops: read a request, run the store operation      *)
(* under LOCK, send the response.  The store operations are modelled one   *)
(* step per statement group, the way the interpreter may interleave        *)
(* threads between statements; LOCK is what serialises them.               *)
(***************************************************************************)
EXTENDS Integers, FiniteSets, Sequences, TLC

\* Bounds of the model.
MaxNames == 2
MaxConns == 2

Names == 1..MaxNames      \* package names (valid: non-empty byte strings)
Conns == 1..MaxConns      \* handler threads, one per accepted connection

\* Request commands and responses (class attributes of PackageIndexer).
CMD_INDEX  == "INDEX"
CMD_REMOVE == "REMOVE"
CMD_QUERY  == "QUERY"
RES_OK     == "OK"
RES_FAIL   == "FAIL"
RES_ERROR  == "ERROR"

NoOwner == 0
NoReq   == [cmd |-> "NONE", name |-> 0, deps |-> {}]
NoRes   == "NONE"
NoSnap  == [P |-> << >>, D |-> << >>, taken |-> FALSE]

VARIABLES
    PACKAGES,   \* dict: indexed package -> its set of dependencies
    DEPS,       \* dict: package -> set of packages which depend on it
    LOCK,       \* the thread inside `with PackageIndexer.LOCK`, or NoOwner
    pc,         \* position of each handler thread
    req,        \* (cmd, name, deps) a thread is processing
    res,        \* the value the store operation returned to the thread
    pre,        \* history: the store as the thread found it on entering LOCK
    lin,        \* history: the store of the one-at-a-time reference run
    linRes      \* history: what the reference run answered each thread

\* One connection seen at the level of bytes: the peer, the socket and the
\* locals of handle() and receiveRequest().
VARIABLES
    peer,        \* "open", or "closed" once the peer has closed its end
    pending,     \* bytes the peer has written and recv() has not returned yet
    writes,      \* number of writes the peer has made
    wpc,         \* position of the handler: "recv", "frame", "send", "closed"
    data,        \* receiveRequest: the bytes accumulated for this frame
    responseMsg, \* receiveRequest: the response to send
    out,         \* the bytes of each send() since the peer last wrote
    sent,        \* history: the bytes recv() returned for this frame
    npk,         \* history: non-empty packets of this frame (counted up to 2)
    call,        \* history: the payload handed to processRequest
    op,          \* history: the store operation processRequest dispatched
    wpre,        \* history: the store when the frame was complete
    owed,        \* history: frames read minus responses written
    fault        \* history: recv() or send() raised a transport error

wireVars == <<peer, pending, writes, wpc, data, responseMsg, out,
              sent, npk, call, op, wpre, owed, fault>>

storeVars == <<LOCK, pc, req, res, pre, lin, linRes>>

vars == <<PACKAGES, DEPS, LOCK, pc, req, res, pre, lin, linRes, wireVars>>

----------------------------------------------------------------------------
\* Python dicts as functions whose domain is the key set.

EmptyDict == [k \in {} |-> {}]

DictSet(d, k, v) == [x \in (DOMAIN d) \cup {k} |-> IF x = k THEN v ELSE d[x]]

DictDel(d, k) == [x \in (DOMAIN d) \ {k} |-> d[x]]

\* B is reached from A along one to k edges of the forward map P.
RECURSIVE ReachIn(_, _, _, _)
ReachIn(P, A, B, k) ==
    /\ k > 0
    /\ A \in DOMAIN P
    /\ \/ B \in P[A]
       \/ \E X \in P[A] : ReachIn(P, X, B, k - 1)

\* A depends on B, directly or transitively.
Reaches(P, A, B) == ReachIn(P, A, B, Cardinality(DOMAIN P))

----------------------------------------------------------------------------
\* The statements of indexPackage, removePackage and queryPackage.

\* lines 138-140: every dependency is indexed and is not the package itself.
DepsOkNoSelfCheck(P, name, deps) == \A dep \in deps : dep \in DOMAIN P

DepsOkNoIndexedCheck(P, name, deps) == \A dep \in deps : dep # name

DepsOkRejectsIndexed(P, name, deps) ==
    /\ name \notin DOMAIN P
    /\ \A dep \in deps : dep \in DOMAIN P /\ dep # name

\* lines 138-140 with every dependency cycle rejected, not self-loops only.
DepsOkAcyclic(P, name, deps) ==
    \A dep \in deps :
        dep \in DOMAIN P /\ dep # name /\ ~Reaches(P, dep, name)

DepsOk(P, name, deps) == \A dep \in deps : dep \in DOMAIN P /\ dep # name

\* lines 142-144: the dependencies the package no longer has.
StaleDepsNone(P, name, deps) == {}

StaleDeps(P, name, deps) ==
    IF name \in DOMAIN P THEN P[name] \ deps ELSE {}

\* DEPS[dep].remove(name) raises KeyError when dep is no key of DEPS or name
\* is not in DEPS[dep].
RemoveRaises(D, S, name) ==
    \E dep \in S : dep \notin DOMAIN D \/ name \notin D[dep]

\* lines 144-145 and 169-170: DEPS[dep].remove(name) for every dep of S.
RemoveFrom(D, S, name) ==
    [x \in DOMAIN D |-> IF x \in S THEN D[x] \ {name} ELSE D[x]]

\* line 148.
AssignDepsUnion(P, name, deps) ==
    DictSet(P, name, IF name \in DOMAIN P THEN P[name] \cup deps ELSE deps)

AssignDeps(P, name, deps) == DictSet(P, name, deps)

\* lines 151-154: create DEPS[dep] when missing, then add the package to it.
AddToCreateOnly(D, deps, name) ==
    [x \in (DOMAIN D) \cup deps |-> IF x \in DOMAIN D THEN D[x] ELSE {name}]

AddTo(D, deps, name) ==
    [x \in (DOMAIN D) \cup deps |->
        IF x \in deps
        THEN (IF x \in DOMAIN D THEN D[x] ELSE {}) \cup {name}
        ELSE D[x]]

\* line 163.
IsIndexed(P, name) == name \in DOMAIN P

\* line 165.
HasDependentsNever(D, name) == FALSE

HasDependents(D, name) == name \in DOMAIN D /\ Cardinality(D[name]) > 0

\* line 171.
DelPackage(P, name) == DictDel(P, name)

\* line 180.
QueryResultAlwaysOk(P, name) == RES_OK

QueryResult(P, name) == IF name \in DOMAIN P THEN RES_OK ELSE RES_FAIL

----------------------------------------------------------------------------
\* The requests that reach the dispatch of processRequest (lines 107-116):
\* INDEX with any set of valid names, REMOVE and QUERY with no dependencies.

Requests ==
    [cmd : {CMD_INDEX}, name : Names, deps : SUBSET Names]
    \cup [cmd : {CMD_REMOVE, CMD_QUERY}, name : Names, deps : {{}}]

----------------------------------------------------------------------------
\* The store operations run one at a time, start to finish: the reference
\* against which the interleaved execution is compared.

SerialIndex(P, D, name, deps) ==
    IF ~DepsOk(P, name, deps)
    THEN [P |-> P, D |-> D, res |-> RES_FAIL]
    ELSE [P |-> AssignDeps(P, name, deps),
          D |-> AddTo(RemoveFrom(D, StaleDeps(P, name, deps), name), deps, name),
          res |-> RES_OK]

SerialRemove(P, D, name) ==
    IF ~IsIndexed(P, name) THEN [P |-> P, D |-> D, res |-> RES_OK]
    ELSE IF HasDependents(D, name) THEN [P |-> P, D |-> D, res |-> RES_FAIL]
    ELSE [P |-> DelPackage(P, name),
          D |-> RemoveFrom(D, P[name], name),
          res |-> RES_OK]

SerialQuery(P, D, name) == [P |-> P, D |-> D, res |-> QueryResult(P, name)]

SerialOp(P, D, r) ==
    IF r.cmd = CMD_INDEX THEN SerialIndex(P, D, r.name, r.deps)
    ELSE IF r.cmd = CMD_REMOVE THEN SerialRemove(P, D, r.name)
    ELSE SerialQuery(P, D, r.name)

----------------------------------------------------------------------------
\* The wire: byte strings are sequences of one-character strings.

NEWLINE             == "\n"
REQ_TOKEN_SEPARATOR == "|"
REQ_DEPS_SEPARATOR  == ","

\* The vertical tab, byte 0x0B (the string holds that one byte).
VT == ""

\* The bytes that bytes.strip() removes (ASCII whitespace): space, \t, \n,
\* \r, \x0b and \f.
WHITESPACE == {" ", "\t", "\n", "\r", VT, "\f"}

\* The bytes of the command and response literals.
BytesOf(w) ==
    CASE w = CMD_INDEX  -> <<"I", "N", "D", "E", "X">>
      [] w = CMD_REMOVE -> <<"R", "E", "M", "O", "V", "E">>
      [] w = CMD_QUERY  -> <<"Q", "U", "E", "R", "Y">>
      [] w = RES_OK     -> <<"O", "K">>
      [] w = RES_FAIL   -> <<"F", "A", "I", "L">>
      [] w = RES_ERROR  -> <<"E", "R", "R", "O", "R">>

\* NEWLINE in s, and more generally b in s for a single byte b.
Contains(s, b) == \E i \in 1..Len(s) : s[i] = b

\* packet[-1 : ] == NEWLINE, data[-1 : ] != NEWLINE (lines 63, 75).
EndsWithNewline(s) == Len(s) > 0 /\ s[Len(s)] = NEWLINE

RECURSIVE LStrip(_)
LStrip(s) ==
    IF Len(s) > 0 /\ s[1] \in WHITESPACE THEN LStrip(Tail(s)) ELSE s

RECURSIVE RStrip(_)
RStrip(s) ==
    IF Len(s) > 0 /\ s[Len(s)] \in WHITESPACE
    THEN RStrip(SubSeq(s, 1, Len(s) - 1))
    ELSE s

\* data.strip() (line 78) with nothing stripped at the left end.
StripRightOnly(s) == RStrip(s)

\* data.strip() (line 78): leading and trailing whitespace chopped off.
Strip(s) == RStrip(LStrip(s))

\* bytes.split(sep): the pieces between the separators, empty ones kept.
RECURSIVE Split(_, _)
Split(s, sep) ==
    IF ~Contains(s, sep) THEN <<s>>
    ELSE LET i == CHOOSE k \in 1..Len(s) :
                      s[k] = sep /\ \A j \in 1..(k - 1) : s[j] # sep
         IN <<SubSeq(s, 1, i - 1)>> \o Split(SubSeq(s, i + 1, Len(s)), sep)

\* parseDepsToken (lines 121-126) that splits the empty token too.
ParseDepsTokenNoEmpty(depsToken) ==
    LET toks == Split(depsToken, REQ_DEPS_SEPARATOR)
    IN {toks[i] : i \in 1..Len(toks)}

\* parseDepsToken (lines 121-126).
ParseDepsToken(depsToken) ==
    IF Len(depsToken) = 0 THEN {}
    ELSE LET toks == Split(depsToken, REQ_DEPS_SEPARATOR)
         IN {toks[i] : i \in 1..Len(toks)}

\* isPackageNameValid (lines 129-130).
IsPackageNameValid(name) == Len(name) > 0

\* What processRequest hands back: the response, the store it leaves and
\* the store operation it dispatched (NoReq when it dispatched none).
Outcome(r, P, D, o) == [res |-> r, P |-> P, D |-> D, op |-> o]

\* processRequest (lines 90-118); the store operation it calls runs under
\* the lock from start to finish.
ProcessRequest(P, D, requestMsg) ==
    LET tokens == Split(requestMsg, REQ_TOKEN_SEPARATOR)
    IN IF Len(tokens) # 3 THEN Outcome(RES_ERROR, P, D, NoReq)
       ELSE
       LET cmd  == tokens[1]
           name == tokens[2]
           deps == ParseDepsToken(tokens[3])
           Run(c) == LET s == SerialOp(P, D, [cmd |-> c, name |-> name, deps |-> deps])
                     IN Outcome(s.res, s.P, s.D,
                                [cmd |-> c, name |-> name, deps |-> deps])
       IN IF ~IsPackageNameValid(name) THEN Outcome(RES_ERROR, P, D, NoReq)
          ELSE IF \E dep \in deps : ~IsPackageNameValid(dep)
          THEN Outcome(RES_ERROR, P, D, NoReq)
          ELSE IF cmd = BytesOf(CMD_INDEX) THEN Run(CMD_INDEX)
          ELSE IF cmd = BytesOf(CMD_REMOVE)
          THEN (IF Cardinality(deps) > 0 THEN Outcome(RES_ERROR, P, D, NoReq)
                ELSE Run(CMD_REMOVE))
          ELSE IF cmd = BytesOf(CMD_QUERY)
          THEN (IF Cardinality(deps) > 0 THEN Outcome(RES_ERROR, P, D, NoReq)
                ELSE Run(CMD_QUERY))
          ELSE Outcome(RES_ERROR, P, D, NoReq)

\* The payload handed to processRequest, if it was called at all.
NoCall == [made |-> FALSE, msg |-> << >>]

Call(requestMsg) == [made |-> TRUE, msg |-> requestMsg]

\* receiveRequest handling the first line of the frame and dropping the rest.
FrameOutcomeFirstLine(P, D, frame) ==
    IF ~EndsWithNewline(frame)
    THEN [res |-> RES_ERROR, P |-> P, D |-> D, call |-> NoCall, op |-> NoReq]
    ELSE LET requestMsg == Split(Strip(frame), NEWLINE)[1]
             o == ProcessRequest(P, D, requestMsg)
         IN [res |-> o.res, P |-> o.P, D |-> o.D,
             call |-> Call(requestMsg), op |-> o.op]

\* receiveRequest once the frame is read (lines 75-82): the response, the
\* store, the payload handed to processRequest (NoCall when it was not
\* called) and the store operation dispatched.
FrameOutcome(P, D, frame) ==
    IF ~EndsWithNewline(frame)
    THEN [res |-> RES_ERROR, P |-> P, D |-> D, call |-> NoCall, op |-> NoReq]
    ELSE LET requestMsg == Strip(frame)
         IN IF Contains(requestMsg, NEWLINE)
            THEN [res |-> RES_ERROR, P |-> P, D |-> D,
                  call |-> NoCall, op |-> NoReq]
            ELSE LET o == ProcessRequest(P, D, requestMsg)
                 IN [res |-> o.res, P |-> o.P, D |-> o.D,
                     call |-> Call(requestMsg), op |-> o.op]

----------------------------------------------------------------------------
Init ==
    /\ PACKAGES = EmptyDict
    /\ DEPS = EmptyDict
    /\ LOCK = NoOwner
    /\ pc = [c \in Conns |-> "recv"]
    /\ req = [c \in Conns |-> NoReq]
    /\ res = [c \in Conns |-> NoRes]
    /\ pre = [c \in Conns |-> NoSnap]
    /\ lin = [P |-> EmptyDict, D |-> EmptyDict]
    /\ linRes = [c \in Conns |-> NoRes]
    /\ peer = "open"
    /\ pending = << >>
    /\ writes = 0
    /\ wpc = "recv"
    /\ data = << >>
    /\ responseMsg = NoRes
    /\ out = << >>
    /\ sent = << >>
    /\ npk = 0
    /\ call = NoCall
    /\ op = NoReq
    /\ wpre = NoSnap
    /\ owed = 0
    /\ fault = FALSE

\* LOCK.acquire() succeeds only while no thread holds the lock.
LockFreeAlways == TRUE

LockFree == LOCK = NoOwner

\* receiveRequest has read a request and processRequest has parsed it
\* (lines 57-106); the thread now calls the handler and waits for LOCK.
\* What the request says is local to the thread until it holds the lock,
\* so its content is drawn in Acquire, where the store first sees it.
Receive(c) ==
    /\ pc[c] = "recv"
    /\ pc' = [pc EXCEPT ![c] = "lock"]
    /\ UNCHANGED <<PACKAGES, DEPS, LOCK, req, res, pre, lin, linRes>>
    /\ UNCHANGED wireVars

\* `with PackageIndexer.LOCK:` (lines 136, 162, 179).
Acquire(c) ==
    /\ pc[c] = "lock"
    /\ LockFree
    /\ LOCK' = c
    /\ \E r \in Requests :
        /\ req' = [req EXCEPT ![c] = r]
        /\ pc' = [pc EXCEPT ![c] = IF r.cmd = CMD_INDEX THEN "idx_check"
                                   ELSE IF r.cmd = CMD_REMOVE THEN "rm_check"
                                   ELSE "qry"]
        /\ LET s == SerialOp(lin.P, lin.D, r)
           IN /\ lin' = [P |-> s.P, D |-> s.D]
              /\ linRes' = [linRes EXCEPT ![c] = s.res]
    /\ pre' = [pre EXCEPT ![c] = [P |-> PACKAGES, D |-> DEPS, taken |-> TRUE]]
    /\ UNCHANGED <<PACKAGES, DEPS, res>>
    /\ UNCHANGED wireVars

\* The check with DEPS[dep] created for every dependency it looks at.
IdxCheckEager(c) ==
    /\ pc[c] = "idx_check"
    /\ DEPS' = [x \in (DOMAIN DEPS) \cup req[c].deps |->
                   IF x \in DOMAIN DEPS THEN DEPS[x] ELSE {}]
    /\ IF DepsOk(PACKAGES, req[c].name, req[c].deps)
       THEN /\ pc' = [pc EXCEPT ![c] = "idx_stale"]
            /\ res' = res
       ELSE /\ pc' = [pc EXCEPT ![c] = "ret"]
            /\ res' = [res EXCEPT ![c] = RES_FAIL]
    /\ UNCHANGED <<PACKAGES, LOCK, req, pre, lin, linRes>>
    /\ UNCHANGED wireVars

\* The check under the lock, the update after the lock is given back.
IdxCheckUnlocked(c) ==
    /\ pc[c] = "idx_check"
    /\ IF DepsOk(PACKAGES, req[c].name, req[c].deps)
       THEN /\ pc' = [pc EXCEPT ![c] = "idx_stale"]
            /\ res' = res
            /\ LOCK' = NoOwner
       ELSE /\ pc' = [pc EXCEPT ![c] = "ret"]
            /\ res' = [res EXCEPT ![c] = RES_FAIL]
            /\ LOCK' = LOCK
    /\ UNCHANGED <<PACKAGES, DEPS, req, pre, lin, linRes>>
    /\ UNCHANGED wireVars

\* indexPackage, lines 138-140.
IdxCheck(c) ==
    /\ pc[c] = "idx_check"
    /\ IF DepsOk(PACKAGES, req[c].name, req[c].deps)
       THEN /\ pc' = [pc EXCEPT ![c] = "idx_stale"]
            /\ res' = res
       ELSE /\ pc' = [pc EXCEPT ![c] = "ret"]
            /\ res' = [res EXCEPT ![c] = RES_FAIL]
    /\ UNCHANGED <<PACKAGES, DEPS, LOCK, req, pre, lin, linRes>>
    /\ UNCHANGED wireVars

\* A KeyError inside the with block: the lock is released, the exception
\* leaves handle() and the thread ends.  The loop had removed the package
\* from some of the sets T before it reached the dependency that raised.
Raise(c, S, name) ==
    /\ \E T \in SUBSET {dep \in S : ~RemoveRaises(DEPS, {dep}, name)} :
           DEPS' = RemoveFrom(DEPS, T, name)
    /\ LOCK' = NoOwner
    /\ pc' = [pc EXCEPT ![c] = "crashed"]

\* indexPackage, lines 142-145.
IdxStale(c) ==
    /\ pc[c] = "idx_stale"
    /\ LET S == StaleDeps(PACKAGES, req[c].name, req[c].deps)
       IN IF RemoveRaises(DEPS, S, req[c].name)
          THEN Raise(c, S, req[c].name)
          ELSE /\ DEPS' = RemoveFrom(DEPS, S, req[c].name)
               /\ pc' = [pc EXCEPT ![c] = "idx_assign"]
               /\ LOCK' = LOCK
    /\ UNCHANGED <<PACKAGES, req, res, pre, lin, linRes>>
    /\ UNCHANGED wireVars

\* indexPackage, line 148.
IdxAssign(c) ==
    /\ pc[c] = "idx_assign"
    /\ PACKAGES' = AssignDeps(PACKAGES, req[c].name, req[c].deps)
    /\ pc' = [pc EXCEPT ![c] = "idx_add"]
    /\ UNCHANGED <<DEPS, LOCK, req, res, pre, lin, linRes>>
    /\ UNCHANGED wireVars

\* indexPackage, lines 151-156.
IdxAdd(c) ==
    /\ pc[c] = "idx_add"
    /\ DEPS' = AddTo(DEPS, req[c].deps, req[c].name)
    /\ res' = [res EXCEPT ![c] = RES_OK]
    /\ pc' = [pc EXCEPT ![c] = "ret"]
    /\ UNCHANGED <<PACKAGES, LOCK, req, pre, lin, linRes>>
    /\ UNCHANGED wireVars

\* removePackage, lines 163-166.
RmCheck(c) ==
    /\ pc[c] = "rm_check"
    /\ IF ~IsIndexed(PACKAGES, req[c].name)
       THEN /\ pc' = [pc EXCEPT ![c] = "ret"]
            /\ res' = [res EXCEPT ![c] = RES_OK]
       ELSE IF HasDependents(DEPS, req[c].name)
       THEN /\ pc' = [pc EXCEPT ![c] = "ret"]
            /\ res' = [res EXCEPT ![c] = RES_FAIL]
       ELSE /\ pc' = [pc EXCEPT ![c] = "rm_unlink"]
            /\ res' = res
    /\ UNCHANGED <<PACKAGES, DEPS, LOCK, req, pre, lin, linRes>>
    /\ UNCHANGED wireVars

\* removePackage, lines 169-170.  PACKAGES[name] raises KeyError when the
\* package is no longer a key.
RmUnlink(c) ==
    /\ pc[c] = "rm_unlink"
    /\ IF ~IsIndexed(PACKAGES, req[c].name)
       THEN Raise(c, {}, req[c].name)
       ELSE IF RemoveRaises(DEPS, PACKAGES[req[c].name], req[c].name)
       THEN Raise(c, PACKAGES[req[c].name], req[c].name)
       ELSE /\ DEPS' = RemoveFrom(DEPS, PACKAGES[req[c].name], req[c].name)
            /\ pc' = [pc EXCEPT ![c] = "rm_del"]
            /\ LOCK' = LOCK
    /\ UNCHANGED <<PACKAGES, req, res, pre, lin, linRes>>
    /\ UNCHANGED wireVars

\* removePackage, lines 171-173.
RmDel(c) ==
    /\ pc[c] = "rm_del"
    /\ IF ~IsIndexed(PACKAGES, req[c].name)
       THEN /\ Raise(c, {}, req[c].name)
            /\ UNCHANGED <<PACKAGES, res>>
       ELSE /\ PACKAGES' = DelPackage(PACKAGES, req[c].name)
            /\ res' = [res EXCEPT ![c] = RES_OK]
            /\ pc' = [pc EXCEPT ![c] = "ret"]
            /\ UNCHANGED <<DEPS, LOCK>>
    /\ UNCHANGED <<req, pre, lin, linRes>>
    /\ UNCHANGED wireVars

\* queryPackage, line 180.
Query(c) ==
    /\ pc[c] = "qry"
    /\ res' = [res EXCEPT ![c] = QueryResult(PACKAGES, req[c].name)]
    /\ pc' = [pc EXCEPT ![c] = "ret"]
    /\ UNCHANGED <<PACKAGES, DEPS, LOCK, req, pre, lin, linRes>>
    /\ UNCHANGED wireVars

\* The result goes back with the lock still held.
ReleaseKeepsLock(c) ==
    /\ pc[c] = "ret"
    /\ LOCK' = LOCK
    /\ pc' = [pc EXCEPT ![c] = "send"]
    /\ req' = [req EXCEPT ![c] = NoReq]
    /\ pre' = [pre EXCEPT ![c] = NoSnap]
    /\ UNCHANGED <<PACKAGES, DEPS, res, lin, linRes>>
    /\ UNCHANGED wireVars

\* The lock given back at the final return only, not at the early FAIL.
ReleaseOnlyOnOk(c) ==
    /\ pc[c] = "ret"
    /\ LOCK' = IF res[c] = RES_FAIL THEN LOCK ELSE NoOwner
    /\ pc' = [pc EXCEPT ![c] = "send"]
    /\ req' = [req EXCEPT ![c] = NoReq]
    /\ pre' = [pre EXCEPT ![c] = NoSnap]
    /\ UNCHANGED <<PACKAGES, DEPS, res, lin, linRes>>
    /\ UNCHANGED wireVars

\* Leaving the with block on return: the lock is released and the result
\* goes back to receiveRequest (line 82).
Release(c) ==
    /\ pc[c] = "ret"
    /\ LOCK' = NoOwner
    /\ pc' = [pc EXCEPT ![c] = "send"]
    /\ req' = [req EXCEPT ![c] = NoReq]
    /\ pre' = [pre EXCEPT ![c] = NoSnap]
    /\ UNCHANGED <<PACKAGES, DEPS, res, lin, linRes>>
    /\ UNCHANGED wireVars

\* receiveRequest, lines 85-87, then handle() loops (line 49).
Send(c) ==
    /\ pc[c] = "send"
    /\ pc' = [pc EXCEPT ![c] = "recv"]
    /\ res' = [res EXCEPT ![c] = NoRes]
    /\ linRes' = [linRes EXCEPT ![c] = NoRes]
    /\ UNCHANGED <<PACKAGES, DEPS, LOCK, req, pre, lin>>
    /\ UNCHANGED wireVars

Next ==
    \E c \in Conns :
        \/ Receive(c)
        \/ Acquire(c)
        \/ IdxCheck(c)
        \/ IdxStale(c)
        \/ IdxAssign(c)
        \/ IdxAdd(c)
        \/ RmCheck(c)
        \/ RmUnlink(c)
        \/ RmDel(c)
        \/ Query(c)
        \/ Release(c)
        \/ Send(c)

Spec == Init /\ [][Next]_vars

\* The steps a handler thread takes on its own once it has the lock: the
\* statements of its store operation and the release of the lock.  The
\* interpreter keeps running every runnable thread (weak fairness), and a
\* thread blocked in LOCK.acquire() gets the lock if it is released again
\* and again (strong fairness).  The peer is free never to send a request
\* and never to read a response: recv() and send() (lines 61 and 87) block
\* for as long as it does not, so neither Receive nor Send is a fair step.
Step(c) ==
    \/ IdxCheck(c) \/ IdxStale(c) \/ IdxAssign(c) \/ IdxAdd(c)
    \/ RmCheck(c) \/ RmUnlink(c) \/ RmDel(c)
    \/ Query(c) \/ Release(c)

FairSpec ==
    /\ Spec
    /\ \A c \in Conns : WF_vars(Step(c)) /\ SF_vars(Acquire(c))

----------------------------------------------------------------------------
\* One connection at the level of bytes.  The peer writes frames, recv()
\* returns them in packets of any size, and the handler runs
\* receiveRequest: read a frame, process it, send the response.  The store
\* operation runs under the lock from start to finish (SerialOp).

\* Bound: the number of writes the peer makes on the connection.
MaxWrites == 2

TCP_SOCKET_BUFFER_BYTES == 4096

Min(a, b) == IF a < b THEN a ELSE b

\* The fields a request is made of.
CmdFields ==
    {BytesOf(CMD_INDEX), BytesOf(CMD_REMOVE), BytesOf(CMD_QUERY),
     <<"i", "n", "d", "e", "x">>, << >>}

NameFields == {<< >>, <<"a">>, <<"b">>, <<"a", " ">>}

DepSegments == {<< >>, <<"a">>, <<"b">>}

DepsFields ==
    {<< >>, <<"a">>, <<"b">>, <<"a", " ">>, <<" ", "a">>}
    \cup {x \o <<REQ_DEPS_SEPARATOR>> \o y : x \in DepSegments, y \in DepSegments}

\* Request bodies with one, two, three and four fields.
Bodies ==
    CmdFields
    \cup {c \o <<REQ_TOKEN_SEPARATOR>> \o n : c \in CmdFields, n \in NameFields}
    \cup {c \o <<REQ_TOKEN_SEPARATOR>> \o n \o <<REQ_TOKEN_SEPARATOR>> \o d :
            c \in CmdFields, n \in NameFields, d \in DepsFields}
    \cup {c \o <<REQ_TOKEN_SEPARATOR>> \o <<"a">> \o <<REQ_TOKEN_SEPARATOR>>
            \o <<REQ_TOKEN_SEPARATOR>> : c \in CmdFields}

\* Well-formed bodies the peer also sends padded, unterminated or pipelined.
PadBodies ==
    {BytesOf(CMD_INDEX) \o <<"|", "a", "|">>,
     BytesOf(CMD_INDEX) \o <<"|", "b", "|", "a">>,
     BytesOf(CMD_REMOVE) \o <<"|", "a", "|">>,
     BytesOf(CMD_QUERY) \o <<"|", "a", "|">>}

\* What the peer may write in one go.
Frames ==
    {b \o <<NEWLINE>> : b \in Bodies}
    \cup {<<NEWLINE>> \o b \o <<NEWLINE>> : b \in PadBodies}
    \cup {b \o <<NEWLINE, NEWLINE>> : b \in PadBodies}
    \cup {<<" ">> \o b \o <<NEWLINE>> : b \in PadBodies}
    \cup {b \o <<" ", NEWLINE>> : b \in PadBodies}
    \cup {<<VT>> \o b \o <<NEWLINE>> : b \in PadBodies}
    \cup {b \o <<VT, NEWLINE>> : b \in PadBodies}
    \cup PadBodies
    \cup {b1 \o <<NEWLINE>> \o b2 \o <<NEWLINE>> : b1 \in PadBodies, b2 \in PadBodies}

\* The client writes once the handler has read all it wrote before and has
\* answered every complete frame: a request, part of one, or several at
\* once.  It has read the responses sent so far.
PeerWrite ==
    /\ peer = "open" /\ wpc = "recv"
    /\ pending = << >>
    /\ writes < MaxWrites
    /\ \E m \in Frames : pending' = m
    /\ writes' = writes + 1
    /\ out' = << >>
    /\ UNCHANGED <<PACKAGES, DEPS, storeVars, peer, wpc, data, responseMsg,
                   sent, npk, call, op, wpre, owed, fault>>

\* The client closes its end.  What it wrote before is delivered first, so
\* the handler sees the close only when nothing is left to read.
PeerClose ==
    /\ peer = "open" /\ wpc = "recv"
    /\ pending = << >>
    /\ peer' = "closed"
    /\ UNCHANGED <<PACKAGES, DEPS, storeVars, pending, writes, wpc, data,
                   responseMsg, out, sent, npk, call, op, wpre, owed, fault>>

\* Line 62 with the packet replacing what was accumulated.
AccumulateLast(d, packet) == packet

\* Line 62: data += packet.
Accumulate(d, packet) == d \o packet

\* Line 63: the packet that ends the frame.
LastPacket(packet) == Len(packet) = 0 \/ EndsWithNewline(packet)

\* receiveRequest, lines 61-64: one recv().  It returns some of the bytes
\* that have arrived, or no byte once the peer has closed and all is read.
RecvPacket ==
    /\ wpc = "recv"
    /\ pending # << >> \/ peer = "closed"
    /\ \E n \in 0..Min(Len(pending), TCP_SOCKET_BUFFER_BYTES) :
        /\ n = 0 <=> pending = << >>
        /\ LET packet == SubSeq(pending, 1, n)
           IN /\ pending' = SubSeq(pending, n + 1, Len(pending))
              /\ data' = Accumulate(data, packet)
              /\ sent' = sent \o packet
              /\ npk' = IF n > 0 /\ npk < 2 THEN npk + 1 ELSE npk
              /\ IF LastPacket(packet)
                 THEN /\ wpc' = "frame"
                      /\ owed' = IF Len(sent \o packet) > 0 THEN owed + 1 ELSE owed
                 ELSE /\ wpc' = "recv"
                      /\ owed' = owed
    /\ UNCHANGED <<PACKAGES, DEPS, storeVars, peer, writes, responseMsg, out,
                   call, op, wpre, fault>>

\* receiveRequest closing the connection on a response that is not OK.
HandleFrameStrict ==
    /\ wpc = "frame"
    /\ IF Len(data) = 0
       THEN /\ wpc' = "closed"
            /\ UNCHANGED <<PACKAGES, DEPS, responseMsg, call, op, wpre>>
       ELSE LET o == FrameOutcome(PACKAGES, DEPS, data)
            IN /\ PACKAGES' = o.P
               /\ DEPS' = o.D
               /\ responseMsg' = o.res
               /\ call' = o.call
               /\ op' = o.op
               /\ wpre' = [P |-> PACKAGES, D |-> DEPS, taken |-> TRUE]
               /\ wpc' = IF o.res = RES_OK THEN "send" ELSE "closed"
    /\ UNCHANGED <<storeVars, peer, pending, writes, data, out, sent, npk,
                   owed, fault>>

\* receiveRequest taking any data without the final newline for the end of
\* the stream.
HandleFrameEofCloses ==
    /\ wpc = "frame"
    /\ IF ~EndsWithNewline(data)
       THEN /\ wpc' = "closed"
            /\ UNCHANGED <<PACKAGES, DEPS, responseMsg, call, op, wpre>>
       ELSE LET o == FrameOutcome(PACKAGES, DEPS, data)
            IN /\ PACKAGES' = o.P
               /\ DEPS' = o.D
               /\ responseMsg' = o.res
               /\ call' = o.call
               /\ op' = o.op
               /\ wpre' = [P |-> PACKAGES, D |-> DEPS, taken |-> TRUE]
               /\ wpc' = "send"
    /\ UNCHANGED <<storeVars, peer, pending, writes, data, out, sent, npk,
                   owed, fault>>

\* receiveRequest, lines 66-82: no byte at all raises ConnectionAbortedError,
\* which ends handle() (lines 52-54); otherwise the frame is checked and
\* processed.
HandleFrame ==
    /\ wpc = "frame"
    /\ IF Len(data) = 0
       THEN /\ wpc' = "closed"
            /\ UNCHANGED <<PACKAGES, DEPS, responseMsg, call, op, wpre>>
       ELSE LET o == FrameOutcome(PACKAGES, DEPS, data)
            IN /\ PACKAGES' = o.P
               /\ DEPS' = o.D
               /\ responseMsg' = o.res
               /\ call' = o.call
               /\ op' = o.op
               /\ wpre' = [P |-> PACKAGES, D |-> DEPS, taken |-> TRUE]
               /\ wpc' = "send"
    /\ UNCHANGED <<storeVars, peer, pending, writes, data, out, sent, npk,
                   owed, fault>>

\* Line 85 without the newline.
EncodeBare(r) == BytesOf(r)

\* Line 85: res = responseMsg + NEWLINE.
Encode(r) == BytesOf(r) \o <<NEWLINE>>

\* receiveRequest, lines 85-87, then handle() calls receiveRequest again.
SendResponse ==
    /\ wpc = "send"
    /\ out' = Append(out, Encode(responseMsg))
    /\ owed' = owed - 1
    /\ wpc' = "recv"
    /\ data' = << >>
    /\ responseMsg' = NoRes
    /\ sent' = << >>
    /\ npk' = 0
    /\ call' = NoCall
    /\ op' = NoReq
    /\ wpre' = NoSnap
    /\ UNCHANGED <<PACKAGES, DEPS, storeVars, peer, pending, writes, fault>>

\* recv() or send() raises an error of the transport: the exception leaves
\* handle(), the connection is closed and the locals and the socket with
\* what it held are gone.
TransportError ==
    /\ wpc \in {"recv", "send"}
    /\ wpc' = "closed"
    /\ fault' = TRUE
    /\ pending' = << >>
    /\ data' = << >>
    /\ responseMsg' = NoRes
    /\ out' = << >>
    /\ sent' = << >>
    /\ npk' = 0
    /\ call' = NoCall
    /\ op' = NoReq
    /\ wpre' = NoSnap
    /\ UNCHANGED <<PACKAGES, DEPS, storeVars, peer, writes, owed>>

NextWire ==
    \/ PeerWrite
    \/ PeerClose
    \/ RecvPacket
    \/ HandleFrame
    \/ SendResponse
    \/ TransportError

SpecWire == Init /\ [][NextWire]_vars

----------------------------------------------------------------------------
\* Shorthands for the properties below.

Edge(P, A, B) == A \in DOMAIN P /\ B \in P[A]

RevEdge(D, A, B) == B \in DOMAIN D /\ A \in D[B]

\* Thread c has computed the result of a cmd operation and still holds LOCK.
AtRet(c, cmd) == pc[c] = "ret" /\ req[c].cmd = cmd

----------------------------------------------------------------------------
\* C1 (edge symmetry): whenever the lock is free, for all names A and B,
\* B is in PACKAGES[A] if and only if DEPS[B] exists and contains A.
EdgeSymmetry ==
    LOCK = NoOwner =>
        \A A \in Names, B \in Names :
            Edge(PACKAGES, A, B) <=> RevEdge(DEPS, A, B)

\* The lock is free, one package depends on another, and a reverse set has
\* been emptied again (its key is kept).
EdgeSymmetryWitness ==
    /\ LOCK = NoOwner
    /\ \E A \in Names, B \in Names : Edge(PACKAGES, A, B) /\ RevEdge(DEPS, A, B)
    /\ \E B \in DOMAIN DEPS : DEPS[B] = {}

\* C2 (closure): whenever the lock is free, every dependency of an indexed
\* package is itself indexed, whatever the interleaving of an INDEX of b
\* depending on a with a REMOVE of a.
Closure ==
    LOCK = NoOwner =>
        \A A \in DOMAIN PACKAGES : PACKAGES[A] \subseteq DOMAIN PACKAGES

\* Two threads ran their operations against each other: one was answered
\* OK, the other FAIL, and a package with a dependency is indexed.
ClosureWitness ==
    /\ LOCK = NoOwner
    /\ \E A \in Names, B \in Names : Edge(PACKAGES, A, B)
    /\ \E c1 \in Conns, c2 \in Conns :
        /\ pc[c1] = "send" /\ res[c1] = RES_OK
        /\ pc[c2] = "send" /\ res[c2] = RES_FAIL

\* C3 (irreflexivity): in every reachable state no indexed package is in its
\* own dependency set, and an INDEX whose dependencies contain the package's
\* own name returns FAIL, also when the package is already indexed.
Irreflexive ==
    /\ \A A \in DOMAIN PACKAGES : A \notin PACKAGES[A]
    /\ \A c \in Conns :
        (AtRet(c, CMD_INDEX) /\ req[c].name \in req[c].deps)
            => res[c] = RES_FAIL

\* An INDEX of an already indexed package naming itself was answered FAIL.
IrreflexiveWitness ==
    \E c \in Conns :
        /\ AtRet(c, CMD_INDEX)
        /\ req[c].name \in req[c].deps
        /\ req[c].name \in DOMAIN pre[c].P
        /\ res[c] = RES_FAIL

\* C4 (index precondition): index(name, deps) returns FAIL if and only if
\* name is in deps or some member of deps was not indexed when the operation
\* began; in every other case it returns OK.
IndexFailsIff ==
    \A c \in Conns :
        AtRet(c, CMD_INDEX) =>
            /\ res[c] \in {RES_OK, RES_FAIL}
            /\ res[c] = RES_FAIL <=>
                  \/ req[c].name \in req[c].deps
                  \/ \E d \in req[c].deps : d \notin DOMAIN pre[c].P

\* An INDEX of an already indexed package with a non-empty set of indexed
\* dependencies was answered OK.
IndexFailsIffWitness ==
    \E c \in Conns :
        /\ AtRet(c, CMD_INDEX)
        /\ req[c].name \in DOMAIN pre[c].P
        /\ req[c].deps # {}
        /\ res[c] = RES_OK

\* The dependencies a successful INDEX drops from the package.
Dropped(c) ==
    IF req[c].name \in DOMAIN pre[c].P
    THEN pre[c].P[req[c].name] \ req[c].deps
    ELSE {}

\* C5 (wholesale replacement): after index(name, deps) returns OK,
\* PACKAGES[name] is exactly deps, name is in no reverse set of a dependency
\* it dropped, and a dropped dependency that no indexed package depends on
\* can be removed (REMOVE returns OK).
WholesaleReplacement ==
    \A c \in Conns :
        (AtRet(c, CMD_INDEX) /\ res[c] = RES_OK) =>
            /\ req[c].name \in DOMAIN PACKAGES
            /\ PACKAGES[req[c].name] = req[c].deps
            /\ \A s \in Dropped(c) :
                /\ ~RevEdge(DEPS, req[c].name, s)
                /\ (\A q \in DOMAIN PACKAGES : s \notin PACKAGES[q])
                      => SerialRemove(PACKAGES, DEPS, s).res = RES_OK

\* A re-index that dropped a dependency which nothing else depends on.
WholesaleReplacementWitness ==
    \E c \in Conns :
        /\ AtRet(c, CMD_INDEX) /\ res[c] = RES_OK
        /\ \E s \in Dropped(c) :
            /\ \A q \in DOMAIN PACKAGES : s \notin PACKAGES[q]
            /\ s \in DOMAIN PACKAGES

\* C6 (remove): remove(name) returns OK and changes nothing when name is not
\* indexed; it returns FAIL iff name is indexed and some indexed package has
\* name among its dependencies; otherwise it deletes name from PACKAGES,
\* takes name out of the reverse set of each of its dependencies and returns
\* OK, after which query(name) returns FAIL.
RemoveContract ==
    \A c \in Conns :
        AtRet(c, CMD_REMOVE) =>
            LET name == req[c].name
                P0 == pre[c].P
                D0 == pre[c].D
            IN /\ res[c] \in {RES_OK, RES_FAIL}
               /\ name \notin DOMAIN P0 =>
                     res[c] = RES_OK /\ PACKAGES = P0 /\ DEPS = D0
               /\ res[c] = RES_FAIL <=>
                     (name \in DOMAIN P0 /\ \E q \in DOMAIN P0 : name \in P0[q])
               /\ (name \in DOMAIN P0 /\ res[c] = RES_OK) =>
                     /\ PACKAGES = [x \in (DOMAIN P0) \ {name} |-> P0[x]]
                     /\ \A d \in P0[name] : ~RevEdge(DEPS, name, d)
                     /\ \A d \in DOMAIN D0 :
                           d \in DOMAIN DEPS /\ DEPS[d] \ {name} = D0[d] \ {name}
                     /\ SerialQuery(PACKAGES, DEPS, name).res = RES_FAIL

\* A package that had a dependency was removed.
RemoveContractWitness ==
    \E c \in Conns :
        /\ AtRet(c, CMD_REMOVE) /\ res[c] = RES_OK
        /\ req[c].name \in DOMAIN pre[c].P
        /\ pre[c].P[req[c].name] # {}

\* C7 (failure changes nothing): whenever index or remove returns FAIL, both
\* maps, key sets included, are what they were when the operation began.
FailLeavesStore ==
    \A c \in Conns :
        (pc[c] = "ret" /\ req[c].cmd \in {CMD_INDEX, CMD_REMOVE}
            /\ res[c] = RES_FAIL) =>
                PACKAGES = pre[c].P /\ DEPS = pre[c].D

\* An INDEX failed although one of its dependencies had no reverse set yet
\* and the store was not empty.
FailLeavesStoreWitness ==
    \E c \in Conns :
        /\ AtRet(c, CMD_INDEX) /\ res[c] = RES_FAIL
        /\ \E d \in req[c].deps : d \notin DOMAIN DEPS
        /\ DOMAIN PACKAGES # {}

\* C8 (query): query(name) returns OK if and only if name is a key of
\* PACKAGES and leaves both maps unchanged, so the same query run again on
\* the store it leaves returns the same response.
QueryContract ==
    \A c \in Conns :
        AtRet(c, CMD_QUERY) =>
            /\ res[c] = RES_OK <=> req[c].name \in DOMAIN pre[c].P
            /\ res[c] = RES_FAIL <=> req[c].name \notin DOMAIN pre[c].P
            /\ PACKAGES = pre[c].P /\ DEPS = pre[c].D
            /\ SerialQuery(PACKAGES, DEPS, req[c].name).res = res[c]

\* A QUERY of an indexed package was answered OK while another package is
\* not indexed.
QueryContractWitness ==
    \E c \in Conns :
        /\ AtRet(c, CMD_QUERY) /\ res[c] = RES_OK
        /\ req[c].name \in DOMAIN PACKAGES
        /\ DOMAIN PACKAGES # Names

\* C9 (idempotence of INDEX): indexing an indexed package with the
\* dependency set it already has returns OK and leaves both maps unchanged,
\* and running a successful INDEX again on the store it leaves returns OK
\* and changes nothing.
IndexIdempotent ==
    \A c \in Conns :
        AtRet(c, CMD_INDEX) =>
            /\ (req[c].name \in DOMAIN pre[c].P
                  /\ pre[c].P[req[c].name] = req[c].deps) =>
                    res[c] = RES_OK /\ PACKAGES = pre[c].P /\ DEPS = pre[c].D
            /\ res[c] = RES_OK =>
                    SerialIndex(PACKAGES, DEPS, req[c].name, req[c].deps)
                        = [P |-> PACKAGES, D |-> DEPS, res |-> RES_OK]

\* A package was indexed again with the non-empty dependency set it had.
IndexIdempotentWitness ==
    \E c \in Conns :
        /\ AtRet(c, CMD_INDEX) /\ res[c] = RES_OK
        /\ req[c].name \in DOMAIN pre[c].P
        /\ pre[c].P[req[c].name] = req[c].deps
        /\ req[c].deps # {}

\* C10 (linearizability): every store operation takes effect atomically at
\* one point between the read of its request and the write of its response
\* (its entry into the lock): every response equals the one the reference
\* run gives when it runs the operations one at a time in that order, no
\* operation ends without a response, and whenever the lock is free the
\* store equals the store of the reference run.
Linearizable ==
    /\ LOCK = NoOwner => PACKAGES = lin.P /\ DEPS = lin.D
    /\ \A c \in Conns :
        /\ pc[c] # "crashed"
        /\ pc[c] \in {"ret", "send"} => res[c] = linRes[c]
        /\ pc[c] \in {"recv", "lock"} => res[c] = NoRes /\ linRes[c] = NoRes

\* One thread is about to send OK, another holds the lock with FAIL as its
\* result, and a package with a dependency is indexed.
LinearizableWitness ==
    \E c1 \in Conns, c2 \in Conns :
        /\ pc[c1] = "send" /\ res[c1] = RES_OK
        /\ pc[c2] = "ret" /\ res[c2] = RES_FAIL
        /\ \E A \in Names, B \in Names : Edge(PACKAGES, A, B)

----------------------------------------------------------------------------
\* Positions of a handler thread inside a store operation.
InOp ==
    {"idx_check", "idx_stale", "idx_assign", "idx_add",
     "rm_check", "rm_unlink", "rm_del", "qry", "ret"}

\* C17 (no I/O under the lock): a handler that is in a socket read or a
\* socket write, or waits for the lock, does not own the lock; a handler
\* inside a store operation owns it, so every check and mutation lies
\* between the acquire and the release, and the response is written after.
NoLockDuringIO ==
    \A c \in Conns :
        /\ pc[c] \in {"recv", "lock", "send"} => LOCK # c
        /\ pc[c] \in InOp => LOCK = c

\* One handler writes its response while another is inside the lock.
NoLockDuringIOWitness ==
    \E c1 \in Conns, c2 \in Conns :
        /\ pc[c1] = "send" /\ res[c1] = RES_FAIL
        /\ pc[c2] \in InOp /\ LOCK = c2

\* C19 as stated: under a fair scheduler every frame a handler has read
\* eventually gets its response, so that the handler is back reading the
\* next frame.
Progress ==
    \A c \in Conns : (pc[c] # "recv") ~> (pc[c] = "recv")

\* C19 amended: under a fair scheduler every handler that has read a frame
\* gets the lock (no handler waits for it forever), its store operation
\* terminates, the lock is released on every exit path and the handler
\* arrives at send() with its response; the lock never stays held.  The
\* response is written once the peer lets send() return.
ProgressToSend ==
    /\ \A c \in Conns : (pc[c] \notin {"recv", "send"}) ~> (pc[c] = "send")
    /\ (LOCK # NoOwner) ~> (LOCK = NoOwner)

\* Every handler has read a request and all but the lock holder, which is
\* about to return FAIL early, wait for the lock.
ProgressWitness ==
    \E c \in Conns :
        /\ pc[c] = "ret" /\ res[c] = RES_FAIL /\ LOCK = c
        /\ \A d \in Conns \ {c} : pc[d] = "lock"

\* C20 (no KeyError): every DEPS[dep].remove(name) of indexPackage and of
\* removePackage finds DEPS[dep] present and containing name, and
\* PACKAGES[name] is present when removePackage reads and deletes it, so no
\* operation is left half done by an exception.
NoKeyError ==
    \A c \in Conns :
        /\ pc[c] # "crashed"
        /\ pc[c] = "idx_stale" =>
              ~RemoveRaises(DEPS, StaleDeps(PACKAGES, req[c].name, req[c].deps),
                            req[c].name)
        /\ pc[c] \in {"rm_unlink", "rm_del"} => req[c].name \in DOMAIN PACKAGES
        /\ pc[c] = "rm_unlink" =>
              ~RemoveRaises(DEPS, PACKAGES[req[c].name], req[c].name)

\* A re-index is about to take the package out of the reverse set of a
\* dependency it drops.
NoKeyErrorWitness ==
    \E c \in Conns :
        /\ pc[c] = "idx_stale"
        /\ StaleDeps(PACKAGES, req[c].name, req[c].deps) # {}

----------------------------------------------------------------------------
\* The connection at the level of bytes (SpecWire).

\* The three responses as they appear on the wire.
Responses ==
    {<<"O", "K", "\n">>, <<"F", "A", "I", "L", "\n">>,
     <<"E", "R", "R", "O", "R", "\n">>}

\* C11: for every frame the handler reads it writes exactly one response,
\* the response is one of OK\n, FAIL\n and ERROR\n, and it is written before
\* the handler reads again: whenever the handler is reading no response is
\* owed, between the end of a frame and the send exactly one is owed, and
\* the handler stops with a response owed only on a transport error.
OneResponsePerFrame ==
    /\ owed \in {0, 1}
    /\ wpc = "recv" => owed = 0
    /\ wpc = "frame" => owed = (IF sent = << >> THEN 0 ELSE 1)
    /\ wpc = "send" => owed = 1
    /\ (wpc = "closed" /\ ~fault) => owed = 0
    /\ \A i \in 1..Len(out) : out[i] \in Responses

\* The handler has answered a frame and is part way through the next one.
OneResponsePerFrameWitness ==
    /\ wpc = "recv"
    /\ Len(out) = 1
    /\ data # << >>
    /\ ~fault

\* C12: an ERROR or FAIL response is not fatal: after sending it the handler
\* is reading again, and the handler closes only when recv() returned no
\* byte with nothing accumulated (the peer closed) or on a transport error.
ClosesOnlyOnEofOrFault ==
    [][/\ (wpc # "closed" /\ wpc' = "closed")
           => \/ fault'
              \/ wpc = "frame" /\ data = << >> /\ pending = << >>
                 /\ peer = "closed"
       /\ (wpc = "send" /\ responseMsg \in {RES_ERROR, RES_FAIL} /\ ~fault')
           => wpc' = "recv"]_vars

\* An ERROR or FAIL was sent and the handler has read and processed the
\* frame after it.
ClosesOnlyOnEofOrFaultWitness ==
    /\ wpc = "send"
    /\ Len(out) = 1
    /\ out[1] \in {<<"F", "A", "I", "L", "\n">>, <<"E", "R", "R", "O", "R", "\n">>}
    /\ ~fault

\* A valid request: exactly one newline, at the end.
ValidRequest(s) ==
    /\ EndsWithNewline(s)
    /\ ~Contains(SubSeq(s, 1, Len(s) - 1), NEWLINE)

\* C13: framing robustness: whatever packets a valid request arrived in, the
\* payload handed to processRequest, the store operation applied, the store
\* it leaves and the response are those of the request arriving in one
\* packet.
FramingRobust ==
    (wpc = "send" /\ ValidRequest(sent)) =>
        LET o == FrameOutcome(wpre.P, wpre.D, sent)
        IN /\ call = o.call
           /\ op = o.op
           /\ responseMsg = o.res
           /\ PACKAGES = o.P
           /\ DEPS = o.D

\* A valid request that arrived in two packets or more and was applied.
FramingRobustWitness ==
    /\ wpc = "send"
    /\ ValidRequest(sent)
    /\ npk = 2
    /\ op.cmd = CMD_INDEX
    /\ responseMsg = RES_OK

\* C14: embedded-newline rule as the specification states it: a frame
\* that, with its single trailing newline removed, still holds a newline (at
\* its start, inside or at its end) is answered ERROR and neither
\* processRequest nor the store is invoked.
EmbeddedNewlineRule ==
    (/\ wpc = "send"
     /\ EndsWithNewline(data)
     /\ Contains(SubSeq(data, 1, Len(data) - 1), NEWLINE))
        => /\ responseMsg = RES_ERROR
           /\ ~call.made
           /\ op = NoReq

\* The requests lined up in s, each with its newline: two or more, each of
\* three fields.
Pipelined(s) ==
    /\ EndsWithNewline(s)
    /\ LET reqs == Split(SubSeq(s, 1, Len(s) - 1), NEWLINE)
       IN /\ Len(reqs) >= 2
          /\ \A i \in 1..Len(reqs) :
                Len(Split(reqs[i], REQ_TOKEN_SEPARATOR)) = 3

\* C15: no pipelining: requests accumulated into one frame get one ERROR
\* and none of them is applied; and every frame answered ERROR leaves
\* PACKAGES and DEPS as they were.
NoPipelining ==
    wpc = "send" =>
        /\ Pipelined(data) => (responseMsg = RES_ERROR /\ owed = 1)
        /\ responseMsg = RES_ERROR
            => (PACKAGES = wpre.P /\ DEPS = wpre.D /\ op = NoReq)

\* REMOVE|a| and a second request read as one frame while a is indexed and
\* nothing depends on it: the REMOVE alone would have removed a.
NoPipeliningWitness ==
    /\ wpc = "send"
    /\ Pipelined(data)
    /\ npk = 2
    /\ SubSeq(data, 1, 9) = <<"R", "E", "M", "O", "V", "E", "|", "a", "|">>
    /\ IsIndexed(PACKAGES, <<"a">>)
    /\ ~HasDependents(DEPS, <<"a">>)

\* The segments of a dependency field as a set.
Segments(depsToken) ==
    LET segs == Split(depsToken, REQ_DEPS_SEPARATOR)
    IN {segs[i] : i \in 1..Len(segs)}

\* The payloads processRequest answers ERROR, as the claim lists them.
Rejected(payload) ==
    LET tokens == Split(payload, REQ_TOKEN_SEPARATOR)
    IN \/ Len(tokens) # 3
       \/ tokens[2] = << >>
       \/ tokens[3] # << >> /\ << >> \in Segments(tokens[3])
       \/ tokens[1] \notin {<<"I", "N", "D", "E", "X">>,
                             <<"R", "E", "M", "O", "V", "E">>,
                             <<"Q", "U", "E", "R", "Y">>}
       \/ /\ tokens[1] \in {<<"R", "E", "M", "O", "V", "E">>,
                             <<"Q", "U", "E", "R", "Y">>}
          /\ tokens[3] # << >>

\* The store operation a payload that is not rejected asks for.
Asked(payload) ==
    LET tokens == Split(payload, REQ_TOKEN_SEPARATOR)
    IN [cmd  |-> IF tokens[1] = <<"I", "N", "D", "E", "X">> THEN CMD_INDEX
                 ELSE IF tokens[1] = <<"R", "E", "M", "O", "V", "E">>
                 THEN CMD_REMOVE ELSE CMD_QUERY,
        name |-> tokens[2],
        deps |-> IF tokens[3] = << >> THEN {} ELSE Segments(tokens[3])]

\* C16: parser classification: processRequest answers ERROR, with the store
\* untouched and no operation dispatched, exactly for the rejected payloads;
\* for any other payload it dispatches the one operation asked for, with the
\* name and the set of distinct dependency segments, and answers with that
\* operation's result.
ParserClassification ==
    (wpc = "send" /\ call.made) =>
        /\ responseMsg = RES_ERROR <=> Rejected(call.msg)
        /\ Rejected(call.msg)
            => (op = NoReq /\ PACKAGES = wpre.P /\ DEPS = wpre.D)
        /\ ~Rejected(call.msg) =>
            LET o == SerialOp(wpre.P, wpre.D, Asked(call.msg))
            IN /\ op = Asked(call.msg)
               /\ responseMsg = o.res
               /\ PACKAGES = o.P
               /\ DEPS = o.D

\* INDEX|b|a,a with a indexed: b is indexed with the one dependency a.
ParserClassificationWitness ==
    /\ wpc = "send"
    /\ call = Call(<<"I", "N", "D", "E", "X", "|", "b", "|", "a", ",", "a">>)
    /\ responseMsg = RES_OK
    /\ PACKAGES[<<"b">>] = {<<"a">>}

\* C18 as stated: the name and the dependencies that reach the store are
\* byte for byte the fields of the request as it was on the wire (its
\* terminating newline apart), so nothing is ever trimmed.
NamesNeverTrimmed ==
    (wpc = "send" /\ ValidRequest(data) /\ op # NoReq) =>
        LET tokens == Split(SubSeq(data, 1, Len(data) - 1), REQ_TOKEN_SEPARATOR)
        IN /\ Len(tokens) = 3
           /\ op.name = tokens[2]
           /\ op.deps = (IF tokens[3] = << >> THEN {} ELSE Segments(tokens[3]))

\* m is s without the whitespace at its two ends.
IsStripOf(m, s) ==
    /\ m # << >> => (m[1] \notin WHITESPACE /\ m[Len(m)] \notin WHITESPACE)
    /\ \E i \in 1..(Len(s) + 1) :
        /\ m = SubSeq(s, i, i + Len(m) - 1)
        /\ \A k \in 1..Len(s) :
              (k < i \/ k > i + Len(m) - 1) => s[k] \in WHITESPACE

\* C18 amended: the parser trims nothing, but the handler strips the
\* whitespace at the two ends of the frame before parsing: the payload
\* parsed is the frame without its leading and trailing whitespace, and the
\* name and the dependencies that reach the store are byte for byte the
\* fields of that payload.  Whitespace is kept everywhere except before the
\* command and at the end of the last field.
NamesFromStrippedFrame ==
    (wpc = "send" /\ call.made) =>
        /\ IsStripOf(call.msg, data)
        /\ op # NoReq =>
            LET tokens == Split(call.msg, REQ_TOKEN_SEPARATOR)
            IN /\ Len(tokens) = 3
               /\ op.name = tokens[2]
               /\ op.deps = (IF tokens[3] = << >> THEN {}
                             ELSE Segments(tokens[3]))

\* INDEX|b|a followed by a space: the dependency stored is a, without the
\* space.
NamesFromStrippedFrameWitness ==
    /\ wpc = "send"
    /\ data = <<"I", "N", "D", "E", "X", "|", "b", "|", "a", " ", "\n">>
    /\ op.cmd = CMD_INDEX
    /\ op.deps = {<<"a">>}
    /\ responseMsg = RES_OK

----------------------------------------------------------------------------
\* C21: INDEX rejects self-loops only.  Re-indexing an indexed package with
\* indexed dependencies other than itself returns OK even when one of them
\* depends on the package, directly or transitively, and leaves the package
\* on a cycle; REMOVE of a package on a cycle returns FAIL and changes
\* nothing; and a package leaves its cycle only by an INDEX that assigns new
\* dependencies to a package on that cycle.
CyclesAllowed ==
    /\ [](\A c \in Conns :
            LET name == req[c].name
                P0 == pre[c].P
            IN /\ (/\ AtRet(c, CMD_INDEX)
                    /\ name \in DOMAIN P0
                    /\ name \notin req[c].deps
                    /\ req[c].deps \subseteq DOMAIN P0
                    /\ \E B \in req[c].deps : Reaches(P0, B, name))
                      => (res[c] = RES_OK /\ Reaches(PACKAGES, name, name))
               /\ (AtRet(c, CMD_REMOVE) /\ Reaches(P0, name, name))
                      => /\ res[c] = RES_FAIL
                         /\ PACKAGES = P0
                         /\ DEPS = pre[c].D)
    /\ [][\A n \in Names :
            (Reaches(PACKAGES, n, n) /\ ~Reaches(PACKAGES', n, n))
                => /\ LOCK # NoOwner
                   /\ req[LOCK].cmd = CMD_INDEX
                   /\ pc[LOCK] = "idx_assign"
                   /\ Reaches(PACKAGES, n, req[LOCK].name)
                   /\ Reaches(PACKAGES, req[LOCK].name, n)]_vars

\* A REMOVE of a package on a dependency cycle was answered FAIL.
CyclesAllowedWitness ==
    \E c \in Conns :
        /\ AtRet(c, CMD_REMOVE)
        /\ Reaches(pre[c].P, req[c].name, req[c].name)
        /\ res[c] = RES_FAIL

----------------------------------------------------------------------------
\* The bytes read for the frame are a partial message: some bytes, the last
\* of them not a newline (the read after them returned no byte).
Partial == sent # << >> /\ ~EndsWithNewline(sent)

\* C22: a partial message followed by the peer's close is not the end of
\* the stream for the handler: it answers the one response ERROR without
\* calling processRequest or touching the store, goes back to reading, and
\* closes only when a read returns no byte with nothing accumulated.
PartialThenClose ==
    /\ []((wpc = "send" /\ Partial)
            => (/\ peer = "closed"
                /\ responseMsg = RES_ERROR
                /\ owed = 1
                /\ ~call.made
                /\ op = NoReq
                /\ PACKAGES = wpre.P
                /\ DEPS = wpre.D))
    /\ [][/\ (wpc = "frame" /\ Partial)
               => (/\ wpc' = "send"
                   /\ responseMsg' = RES_ERROR
                   /\ ~call'.made
                   /\ PACKAGES' = PACKAGES
                   /\ DEPS' = DEPS)
          /\ (wpc = "send" /\ Partial /\ ~fault')
               => (/\ wpc' = "recv"
                   /\ out' = Append(out, <<"E", "R", "R", "O", "R", "\n">>)
                   /\ owed' = 0
                   /\ data' = << >>)
          /\ (wpc # "closed" /\ wpc' = "closed" /\ ~fault')
               => (wpc = "frame" /\ data = << >> /\ sent = << >>)]_vars

\* With a indexed, the peer sent a partial message and closed, and the
\* handler has the response ready.
PartialThenCloseWitness ==
    /\ wpc = "send"
    /\ Partial
    /\ peer = "closed"
    /\ IsIndexed(PACKAGES, <<"a">>)
    /\ responseMsg = RES_ERROR
====
